---- MODULE Spec2Model ----
(***************************************************************************)
(* Model of blocks/asset-allocation/asset-allocation.js: the decorate      *)
(* flow (endpoint resolution, one fetch, three error exits, rendering) and *)
(* the requestAnimationFrame loop of drawPieChart.                         *)
(*                                                                         *)
(* Text is modelled as sequences of one-character strings so that          *)
(* startsWith, trim, toLowerCase and replace are computed character by     *)
(* character.  Fixed markup (the error paragraphs) is kept as strings.     *)
(***************************************************************************)
EXTENDS Integers, Sequences, FiniteSets, TLC

\* ------------------------------------------------------------------ bounds
\* Largest number of entries of asset_allocation in a modelled response.
MaxEntries == 8
\* Spacing of the frame timestamps the browser may deliver (ms).
Tick == 300
\* Frame timestamps range over Tick * (1..MaxTicks).
MaxTicks == 12

\* ------------------------------------------------------- program constants
animationDuration == 3000
sliceDelay == 300
sliceFade == 1200
NumColors == 8

DEFAULT_ENDPOINT ==
  <<"/","a","s","s","e","t","-","a","l","l","o","c","a","t","i","o","n",".","j","s","o","n">>

ERR_HTTP == "<p class=\"error\">Unable to load asset allocation data.</p>"
ERR_PARSE == "<p class=\"error\">Error parsing data.</p>"
ERR_NODATA == "<p class=\"error\">No data available.</p>"
ERR_GENERIC == "<p class=\"error\">Unable to load asset allocation.</p>"

ErrorMessages == {ERR_HTTP, ERR_PARSE, ERR_NODATA, ERR_GENERIC}

\* ------------------------------------------------------------ text helpers
HttpPrefix == <<"h","t","t","p",":","/","/">>
HttpsPrefix == <<"h","t","t","p","s",":","/","/">>
TsParam == <<"?","t","s","=">>

\* String.prototype.startsWith
StartsWith(s, p) == Len(s) >= Len(p) /\ SubSeq(s, 1, Len(p)) = p

\* Characters String.prototype.trim strips (those used by the inputs).
Whitespace == {" ", "\t", "\n"}

RECURSIVE TrimLeft(_)
TrimLeft(s) ==
  IF s # <<>> /\ Head(s) \in Whitespace THEN TrimLeft(Tail(s)) ELSE s

RECURSIVE TrimRight(_)
TrimRight(s) ==
  IF s # <<>> /\ s[Len(s)] \in Whitespace
  THEN TrimRight(SubSeq(s, 1, Len(s) - 1)) ELSE s

\* String.prototype.trim
Trim(s) == TrimRight(TrimLeft(s))

UpperChars == <<"A","B","C","D","F","G","L","N","O","P","S","T","U","W">>
LowerChars == <<"a","b","c","d","f","g","l","n","o","p","s","t","u","w">>

LowerChar(c) ==
  IF \E i \in 1..Len(UpperChars) : UpperChars[i] = c
  THEN LowerChars[CHOOSE i \in 1..Len(UpperChars) : UpperChars[i] = c]
  ELSE c

\* String.prototype.toLowerCase
ToLowerCase(s) == [i \in 1..Len(s) |-> LowerChar(s[i])]

\* String.prototype.replace with a string pattern of one character:
\* only the first occurrence is replaced.
ReplaceFirst(s, from, to) ==
  IF \E i \in 1..Len(s) : s[i] = from
  THEN LET k == CHOOSE i \in 1..Len(s) :
                  s[i] = from /\ \A j \in 1..(i - 1) : s[j] # from
       IN [i \in 1..Len(s) |-> IF i = k THEN to ELSE s[i]]
  ELSE s

DigitChars == <<"0","1","2","3","4","5","6","7","8","9">>

\* Decimal rendering of a non-negative integer in a template literal.
RECURSIVE Digits(_)
Digits(n) ==
  IF n < 10 THEN <<DigitChars[n + 1]>>
  ELSE Digits(n \div 10) \o <<DigitChars[(n % 10) + 1]>>

\* en-US digit grouping of a digit string: a comma before every group of
\* three digits counted from the right.
RECURSIVE Group(_)
Group(d) ==
  IF Len(d) <= 3 THEN d
  ELSE Group(SubSeq(d, 1, Len(d) - 3)) \o <<",">> \o SubSeq(d, Len(d) - 2, Len(d))

\* formatCurrency: Intl.NumberFormat('en-US', USD, 0 fraction digits) on
\* an integer amount.
formatCurrency(value) ==
  IF value < 0 THEN <<"-","$">> \o Group(Digits(0 - value))
  ELSE <<"$">> \o Group(Digits(value))


\* ------------------------------------------------------------ block markup
\* The block's innerHTML.  kind "config" is the authored markup (the
\* optional first row holding the endpoint override), "empty" is '',
\* "error" is one error paragraph, "viz" is the asset-allocation-wrapper
\* holding the chart (canvas + legend) and the table.
NoRow == [present |-> FALSE, text |-> <<>>]

Markup(kind, html, row, legend, rows) ==
  [kind |-> kind, html |-> html, row |-> row, legend |-> legend, rows |-> rows]

ConfigMarkup(row) == Markup("config", "", row, <<>>, <<>>)
EmptyMarkup == Markup("empty", "", NoRow, <<>>, <<>>)
ErrorMarkup(msg) == Markup("error", msg, NoRow, <<>>, <<>>)

\* --------------------------------------------------------- URL resolution
\* Faulty variant of EndpointPath: the text is used without trim().
EndpointPath_NoTrim(row) ==
  IF ~row.present \/ row.text = <<>> THEN DEFAULT_ENDPOINT ELSE row.text

\* decorate line 191:
\*   block.querySelector(':scope div:nth-child(1) > div')?.textContent?.trim()
\*     || CONFIG.DEFAULT_ENDPOINT
EndpointPath(row) ==
  IF ~row.present THEN DEFAULT_ENDPOINT
  ELSE IF Trim(row.text) = <<>> THEN DEFAULT_ENDPOINT
  ELSE Trim(row.text)

\* decorate line 202
IsFullUrl(endpointPath) ==
  StartsWith(endpointPath, HttpPrefix) \/ StartsWith(endpointPath, HttpsPrefix)

\* Faulty variant of ApiUrl: the authoring flag is tested before isFullUrl.
ApiUrl_AuthorFirst(endpointPath, isAuthor, authorurl, origin, now) ==
  IF isAuthor THEN authorurl \o endpointPath \o TsParam \o Digits(now)
  ELSE IF IsFullUrl(endpointPath) THEN endpointPath \o TsParam \o Digits(now)
  ELSE origin \o endpointPath \o TsParam \o Digits(now)

\* decorate lines 199-215.  authorurl is getMetadata('authorurl') || '',
\* origin is window.location.origin, now is Date.now().
ApiUrl(endpointPath, isAuthor, authorurl, origin, now) ==
  IF IsFullUrl(endpointPath) THEN endpointPath \o TsParam \o Digits(now)
  ELSE IF isAuthor THEN authorurl \o endpointPath \o TsParam \o Digits(now)
  ELSE origin \o endpointPath \o TsParam \o Digits(now)

\* ------------------------------------------------------------ JSON bodies
\* A JSON value as far as decorate inspects it: null, a number, an array of
\* entries.  An entry is an AssetEntry; isNull marks a null array element
\* and hasTrend = FALSE an entry whose trend field is missing.
JNull == [t |-> "null", n |-> 0, items |-> <<>>]
JNum(n) == [t |-> "num", n |-> n, items |-> <<>>]
JArr(items) == [t |-> "arr", n |-> 0, items |-> items]

\* JavaScript truthiness of a JSON value.
Truthy(v) ==
  CASE v.t = "null" -> FALSE
    [] v.t = "num" -> v.n # 0
    [] OTHER -> TRUE

\* A response body: text that is not JSON, the JSON null, or an object
\* with or without an asset_allocation field.
InvalidBody == [t |-> "invalid", has |-> FALSE, aa |-> JNull]
NullBody == [t |-> "null", has |-> FALSE, aa |-> JNull]
ObjBody(has, aa) == [t |-> "obj", has |-> has, aa |-> aa]

\* data.asset_allocation (undefined when the field is missing).
FieldTruthy(data) == data.t = "obj" /\ data.has /\ Truthy(data.aa)

\* Faulty variant of IsNoData: only !assetData is tested.
IsNoData_NullOnly(data) == data.t = "null"

\* decorate line 245: !assetData || !assetData.asset_allocation
IsNoData(data) == data.t = "null" \/ ~FieldTruthy(data)

\* ---------------------------------------------------------------- markup
\* renderTable line 155: asset.trend.toLowerCase().replace(' ', '-')
TrendClass(trend) == ReplaceFirst(ToLowerCase(trend), " ", "-")

\* createPieChart lines 113-132: one legend item per entry; throws when
\* asset_allocation is not an array or an element is null.
createPieChart(data) ==
  LET assets == IF FieldTruthy(data) THEN data.aa ELSE JArr(<<>>)
  IN IF assets.t # "arr" \/ \E i \in 1..Len(assets.items) : assets.items[i].isNull
     THEN [throws |-> TRUE, legend |-> <<>>]
     ELSE [throws |-> FALSE,
           legend |-> [i \in 1..Len(assets.items) |->
                         [color |-> (i - 1) % NumColors,
                          label |-> assets.items[i].asset_class,
                          value |-> assets.items[i].allocation_percentage]]]

\* renderTable lines 137-178: one row per entry, in order; throws when
\* asset_allocation is not an array, an element is null or has no trend.
renderTable(data) ==
  LET assets == IF FieldTruthy(data) THEN data.aa ELSE JArr(<<>>)
  IN IF assets.t # "arr"
        \/ \E i \in 1..Len(assets.items) :
              assets.items[i].isNull \/ ~assets.items[i].hasTrend
     THEN [throws |-> TRUE, rows |-> <<>>]
     ELSE [throws |-> FALSE,
           rows |-> [i \in 1..Len(assets.items) |->
                       [asset_class |-> assets.items[i].asset_class,
                        percentage |-> assets.items[i].allocation_percentage,
                        value |-> formatCurrency(assets.items[i].value),
                        trendClass |-> TrendClass(assets.items[i].trend),
                        trend |-> assets.items[i].trend]]]

\* ------------------------------------------------------------------ inputs
\* Texts of the override row the block may be authored with.
RowTexts ==
  { <<>>,
    <<" ", "\n">>,
    <<"/","a">>,
    <<" ","/","a","\n">>,
    <<"h","t","t","p",":","/","/","a">>,
    <<"\t","h","t","t","p","s",":","/","/","a"," ">>,
    <<"h","t","t","p",":","/","a">>,
    <<"H","T","T","P",":","/","/","a">> }

Rows == {NoRow} \cup {[present |-> TRUE, text |-> t] : t \in RowTexts}

\* Values of getMetadata('authorurl') || '' and of window.location.origin.
AuthorUrls == { <<>>, <<"h","t","t","p","s",":","/","/","w">> }
Origin == <<"h","t","t","p",":","/","/","o">>

Envs == [isAuthor : BOOLEAN, authorurl : AuthorUrls, origin : {Origin}]

\* Values of Date.now().
Nows == {7, 1700}

\* HTTP statuses of the response; response.ok is 200..299.
Statuses == {200, 299, 300, 404, 500}

Classes == <<"Stocks", "Bonds", "Cash">>
Amounts == <<1000, 0, 1234567, -50>>
Trends ==
  << <<"U","p">>,
     <<"S","t","a","b","l","e">>,
     <<"G","o","i","n","g"," ","D","o","w","n">>,
     <<"A"," ","B"," ","C">> >>

EntryAt(i) ==
  [asset_class |-> Classes[((i - 1) % Len(Classes)) + 1],
   allocation_percentage |-> 10 * (((i - 1) % 10) + 1),
   value |-> Amounts[((i - 1) % Len(Amounts)) + 1],
   trend |-> Trends[((i - 1) % Len(Trends)) + 1],
   hasTrend |-> TRUE,
   isNull |-> FALSE]

NoTrendEntry == [EntryAt(1) EXCEPT !.hasTrend = FALSE, !.trend = <<>>]
NullEntry == [EntryAt(1) EXCEPT !.isNull = TRUE]

EntryArrays ==
  {[i \in 1..n |-> EntryAt(i)] : n \in 0..MaxEntries}
    \cup {<<EntryAt(1), NoTrendEntry>>, <<NullEntry>>}

\* Outcomes of response.json().
Bodies ==
  {InvalidBody, NullBody, ObjBody(FALSE, JNull), ObjBody(TRUE, JNull),
   ObjBody(TRUE, JNum(0)), ObjBody(TRUE, JNum(5))}
    \cup {ObjBody(TRUE, JArr(a)) : a \in EntryArrays}

\* Timestamps requestAnimationFrame passes to its callback: milliseconds
\* since the page's time origin, hence positive.
Timestamps == {Tick * k : k \in 1..MaxTicks}
LastTimestamp == Tick * MaxTicks

\* ------------------------------------------------------------------- state
VARIABLES
  innerHTML,          \* the block's markup
  env,                \* isAuthorEnvironment(), authorurl metadata, origin
  pc,                 \* decorate's position: "idle", "fetching", "parsing", "done"
  promise,            \* decorate's promise: "none", "pending", "fulfilled", "rejected"
  endpointPath,       \* decorate's endpointPath
  apiUrl,             \* requestConfig.url
  status,             \* response.status, 0 while there is no response
  assetData,          \* what response.json() produced
  fetchCalls,         \* number of fetch() calls made
  jsonCalls,          \* number of response.json() calls made
  thrown,             \* where the last exception was raised, "" if none
  slices,             \* drawPieChart: number of slices
  rafPending,         \* a requestAnimationFrame(animate) callback is scheduled
  animationProgress,  \* drawPieChart: timestamp of the first frame, 0 if unset
  alpha,              \* globalAlpha each slice was drawn with in the last frame,
                      \*   in units of 1/sliceFade; 0 = not drawn
  flashAdds,          \* number of classList.add('flash-animation') calls
  firstFrame,         \* timestamp of the first frame delivered, 0 if none
  clock               \* timestamp of the last frame delivered, 0 if none

vars ==
  <<innerHTML, env, pc, promise, endpointPath, apiUrl, status, assetData,
    fetchCalls, jsonCalls, thrown, slices, rafPending, animationProgress,
    alpha, flashAdds, firstFrame, clock>>

flowVars ==
  <<innerHTML, env, pc, promise, endpointPath, apiUrl, status, assetData,
    fetchCalls, jsonCalls, thrown>>

animVars ==
  <<slices, rafPending, animationProgress, alpha, flashAdds, firstFrame,
    clock>>

Init ==
  /\ innerHTML \in {ConfigMarkup(r) : r \in Rows}
  /\ env \in Envs
  /\ pc = "idle"
  /\ promise = "none"
  /\ endpointPath = <<>>
  /\ apiUrl = <<>>
  /\ status = 0
  /\ assetData = NullBody
  /\ fetchCalls = 0
  /\ jsonCalls = 0
  /\ thrown = ""
  /\ slices = 0
  /\ rafPending = FALSE
  /\ animationProgress = 0
  /\ alpha = <<>>
  /\ flashAdds = 0
  /\ firstFrame = 0
  /\ clock = 0

\* ---------------------------------------------------------------- decorate
\* Faulty variant of Cleared: the authored markup is left in place.
Cleared_Kept(markup) == markup

\* decorate line 194: block.innerHTML = ''
Cleared(markup) == EmptyMarkup

\* decorate lines 184-228 with every lookup returning: resolve the endpoint,
\* clear the block, compose the URL, issue the fetch and suspend on it.
Start(now) ==
  /\ pc = "idle"
  /\ endpointPath' = EndpointPath(innerHTML.row)
  /\ innerHTML' = Cleared(innerHTML)
  /\ apiUrl' = ApiUrl(endpointPath', env.isAuthor, env.authorurl, env.origin, now)
  /\ fetchCalls' = fetchCalls + 1
  /\ pc' = "fetching"
  /\ promise' = "pending"
  /\ UNCHANGED <<env, status, assetData, jsonCalls, thrown>>
  /\ UNCHANGED animVars

\* decorate lines 184-215 when a collaborator throws: isAuthorEnvironment()
\* at line 196, or getMetadata('authorurl') at line 209 (reached only for a
\* relative path in authoring mode).  Both calls are outside the try block
\* of lines 223-274, so the exception leaves the async function and its
\* promise rejects; the block was already cleared at line 194.
StartThrows(who) ==
  /\ pc = "idle"
  /\ who = "getMetadata" =>
       env.isAuthor /\ ~IsFullUrl(EndpointPath(innerHTML.row))
  /\ endpointPath' = EndpointPath(innerHTML.row)
  /\ innerHTML' = Cleared(innerHTML)
  /\ thrown' = who
  /\ pc' = "done"
  /\ promise' = "rejected"
  /\ UNCHANGED <<env, apiUrl, status, assetData, fetchCalls, jsonCalls>>
  /\ UNCHANGED animVars

\* decorate lines 225-228 and 266-274: fetch rejects (network failure); the
\* outer catch shows the generic message and decorate returns normally.
FetchRejected ==
  /\ pc = "fetching"
  /\ innerHTML' = ErrorMarkup(ERR_GENERIC)
  /\ thrown' = "fetch"
  /\ pc' = "done"
  /\ promise' = "fulfilled"
  /\ UNCHANGED <<env, endpointPath, apiUrl, status, assetData, fetchCalls, jsonCalls>>
  /\ UNCHANGED animVars

\* Faulty variant of ResponseOk: redirect-class statuses pass as ok.
ResponseOk_Below400(st) == st >= 200 /\ st < 400

\* Response.ok: the status is in 200..299.
ResponseOk(st) == st >= 200 /\ st <= 299

\* decorate lines 225-238: fetch resolves with a response of status st.
\* Not ok: the HTTP error paragraph and return.  Ok: call response.json()
\* and suspend on it.
FetchResolved(st) ==
  /\ pc = "fetching"
  /\ status' = st
  /\ IF ~ResponseOk(st)
     THEN /\ innerHTML' = ErrorMarkup(ERR_HTTP)
          /\ pc' = "done"
          /\ promise' = "fulfilled"
          /\ UNCHANGED jsonCalls
     ELSE /\ jsonCalls' = jsonCalls + 1
          /\ pc' = "parsing"
          /\ UNCHANGED <<innerHTML, promise>>
  /\ UNCHANGED <<env, endpointPath, apiUrl, assetData, fetchCalls, thrown>>
  /\ UNCHANGED animVars

\* drawPieChart lines 34-59 throw when getContext('2d') gave no context
\* (ctx.clearRect on null) or data is not an array (data.map).
DrawThrows(data, ctxOk) ==
  ~ctxOk \/ ~(data.t = "obj" /\ data.has /\ data.aa.t = "arr")

\* The outcome of decorate lines 245-274 on parsed data: the markup the
\* block ends with, whether drawPieChart reached requestAnimationFrame, and
\* where an exception was raised ("" if nowhere).
Outcome(markup, draw, thr) == [markup |-> markup, draw |-> draw, thrown |-> thr]

AfterParse(data, ctxOk) ==
  IF IsNoData(data) THEN Outcome(ErrorMarkup(ERR_NODATA), FALSE, "")
  ELSE IF createPieChart(data).throws \/ renderTable(data).throws
    THEN Outcome(ErrorMarkup(ERR_GENERIC), FALSE, "render")
  ELSE IF DrawThrows(data, ctxOk)
    THEN Outcome(ErrorMarkup(ERR_GENERIC), FALSE, "drawPieChart")
  ELSE Outcome(Markup("viz", "", NoRow, createPieChart(data).legend,
                      renderTable(data).rows), TRUE, "")

\* Faulty variant of OnJson: without the inner try/catch of lines 237-243
\* a parse failure reaches the outer catch.
OnJson_NoInnerCatch(body, ctxOk) ==
  IF body.t = "invalid"
  THEN Outcome(ErrorMarkup(ERR_GENERIC), FALSE, "json")
  ELSE AfterParse(body, ctxOk)

\* decorate lines 236-274 once response.json() has settled with body.
OnJson(body, ctxOk) ==
  IF body.t = "invalid"
  THEN Outcome(ErrorMarkup(ERR_PARSE), FALSE, "json")
  ELSE AfterParse(body, ctxOk)

\* decorate lines 238-274: response.json() settles; render or show an
\* error; drawPieChart (lines 34-59, 107) schedules the first frame.
JsonSettled(body, ctxOk) ==
  /\ pc = "parsing"
  /\ assetData' = body
  /\ LET out == OnJson(body, ctxOk)
     IN /\ innerHTML' = out.markup
        /\ thrown' = out.thrown
        /\ IF out.draw
           THEN /\ slices' = Len(body.aa.items)
                /\ alpha' = [i \in 1..Len(body.aa.items) |-> 0]
                /\ rafPending' = TRUE
           ELSE UNCHANGED <<slices, alpha, rafPending>>
  /\ pc' = "done"
  /\ promise' = "fulfilled"
  /\ UNCHANGED <<env, endpointPath, apiUrl, status, fetchCalls, jsonCalls>>
  /\ UNCHANGED <<animationProgress, flashAdds, firstFrame, clock>>

\* --------------------------------------------------------------- animation
Min(a, b) == IF a < b THEN a ELSE b
Max(a, b) == IF a > b THEN a ELSE b

\* animate lines 70-72: the opacity of slice index (from 0) at elapsed, in
\* units of 1/sliceFade: min(max(0, elapsed - index*sliceDelay)/1200, 1).
SliceAlpha(index, elapsed) ==
  Min(Max(0, elapsed - index * sliceDelay), sliceFade)

\* Faulty variant of KeepAnimating: the cap itself still schedules a frame.
KeepAnimating_Inclusive(elapsed) == elapsed <= animationDuration

\* animate line 96: elapsed < animationDuration
KeepAnimating(elapsed) == elapsed < animationDuration

\* animate lines 62-104, run by the browser for a scheduled frame with
\* timestamp ts.  Timestamps never decrease.  The first frame is delivered
\* early enough for the modelled clock to reach the end of the animation.
Frame(ts) ==
  /\ rafPending
  /\ ts >= clock
  /\ firstFrame = 0 => ts + animationDuration <= LastTimestamp
  /\ animationProgress' = IF animationProgress = 0 THEN ts ELSE animationProgress
  /\ LET elapsed == ts - animationProgress'
     IN /\ alpha' = [i \in 1..slices |-> SliceAlpha(i - 1, elapsed)]
        /\ rafPending' = KeepAnimating(elapsed)
        /\ flashAdds' = IF KeepAnimating(elapsed) THEN flashAdds ELSE flashAdds + 1
  /\ firstFrame' = IF firstFrame = 0 THEN ts ELSE firstFrame
  /\ clock' = ts
  /\ UNCHANGED slices
  /\ UNCHANGED flowVars

\* A frame whose timestamp is later than the previous frame's.
FrameAdvance == \E ts \in Timestamps : ts > clock /\ Frame(ts)

\* ------------------------------------------------------------ specification
Next ==
  \/ \E now \in Nows : Start(now)
  \/ \E who \in {"isAuthorEnvironment", "getMetadata"} : StartThrows(who)
  \/ FetchRejected
  \/ \E st \in Statuses : FetchResolved(st)
  \/ \E body \in Bodies, ctxOk \in BOOLEAN : JsonSettled(body, ctxOk)
  \/ \E ts \in Timestamps : Frame(ts)

Spec == Init /\ [][Next]_vars

\* The browser runs every scheduled animation frame callback and its clock
\* advances.
LiveSpec == Spec /\ WF_vars(FrameAdvance)

\* ------------------------------------------------------------------ claims
HasPrefixChars(s, p) ==
  Len(s) >= Len(p) /\ \A i \in 1..Len(p) : s[i] = p[i]

AbsolutePath(path) ==
  \/ HasPrefixChars(path, <<"h","t","t","p",":","/","/">>)
  \/ HasPrefixChars(path, <<"h","t","t","p","s",":","/","/">>)

TsSuffixes == {<<"?","t","s","=","7">>, <<"?","t","s","=","1","7","0","0">>}

\* C1: once decorate has composed the request URL, it is the path itself
\* plus '?ts=<timestamp>' when the path starts with http:// or https://
\* (whatever the authoring flag), else authorurl + path + '?ts=<timestamp>'
\* in an authoring environment, else origin + path + '?ts=<timestamp>'.
C1_UrlPrecedence ==
  fetchCalls > 0 =>
    \E sfx \in TsSuffixes :
      apiUrl = (IF AbsolutePath(endpointPath) THEN <<>>
                ELSE IF env.isAuthor THEN env.authorurl
                ELSE env.origin) \o endpointPath \o sfx

\* An absolute override in an authoring environment with a non-empty author
\* host has been resolved to the override itself plus the timestamp.
C1_Witness ==
  /\ fetchCalls > 0
  /\ env.isAuthor
  /\ env.authorurl # <<>>
  /\ AbsolutePath(endpointPath)
  /\ apiUrl = endpointPath \o <<"?","t","s","=","7">>

\* t is s without its leading and trailing whitespace.
IsTrimOf(t, s) ==
  \E a, b \in 0..Len(s) :
    /\ a + b <= Len(s)
    /\ \A i \in 1..a : s[i] \in Whitespace
    /\ \A i \in (Len(s) - b + 1)..Len(s) : s[i] \in Whitespace
    /\ t = SubSeq(s, a + 1, Len(s) - b)
    /\ t # <<>> => (t[1] \notin Whitespace /\ t[Len(t)] \notin Whitespace)

\* C2: the step of decorate that resolves the endpoint sets the path to
\* '/asset-allocation.json' when the block has no override row or the
\* row's text is empty after trimming, and to the trimmed text otherwise.
C2_DefaultEndpoint ==
  [][pc = "idle" /\ pc' # "idle" =>
       LET row == innerHTML.row
       IN IF ~row.present \/ IsTrimOf(<<>>, row.text)
          THEN endpointPath' =
                 <<"/","a","s","s","e","t","-","a","l","l","o","c","a","t",
                   "i","o","n",".","j","s","o","n">>
          ELSE endpointPath' # <<>> /\ IsTrimOf(endpointPath', row.text)]_vars

\* A non-empty override has been resolved to its trimmed text and requested
\* from the page origin.
C2_Witness ==
  /\ pc = "fetching"
  /\ endpointPath = <<"/","a">>
  /\ apiUrl = <<"h","t","t","p",":","/","/","o","/","a","?","t","s","=","7">>

\* C3: after a non-2xx response the block is exactly the HTTP error
\* paragraph and the pass is over: no body was parsed, nothing was
\* rendered, no animation was started, and one request was made in all.
C3_HttpErrorTerminal ==
  (status # 0 /\ ~(status \in 200..299)) =>
    /\ innerHTML = ErrorMarkup("<p class=\"error\">Unable to load asset allocation data.</p>")
    /\ pc = "done"
    /\ promise = "fulfilled"
    /\ jsonCalls = 0
    /\ fetchCalls = 1
    /\ ~rafPending /\ firstFrame = 0 /\ flashAdds = 0

\* A status 500 response has been answered with the HTTP error paragraph.
C3_Witness ==
  /\ status = 500
  /\ innerHTML.html = ERR_HTTP

\* C4: after a 2xx response whose body is not JSON the block is exactly
\* the parse error paragraph, and nothing is rendered or animated.
C4_ParseError ==
  (pc = "done" /\ jsonCalls = 1 /\ assetData.t = "invalid") =>
    /\ innerHTML = ErrorMarkup("<p class=\"error\">Error parsing data.</p>")
    /\ promise = "fulfilled"
    /\ ~rafPending /\ firstFrame = 0 /\ flashAdds = 0

C4_Witness ==
  /\ status = 200
  /\ pc = "done"
  /\ assetData.t = "invalid"
  /\ innerHTML.html = ERR_PARSE

Parsed == pc = "done" /\ jsonCalls = 1 /\ assetData.t # "invalid"

NoDataShown == innerHTML = ErrorMarkup("<p class=\"error\">No data available.</p>")

\* C5 as stated: a parsed body without an asset_allocation field ends in
\* the no-data paragraph, and a parsed body with the field never does.
C5_NoDataIffFieldMissing ==
  Parsed =>
    /\ (assetData.t = "obj" /\ ~assetData.has) => NoDataShown
    /\ (assetData.t = "obj" /\ assetData.has) => ~NoDataShown

\* C5 as amended: a parsed body that is null, has no asset_allocation
\* field, or has one that is falsy (null, 0) ends in the no-data
\* paragraph; a parsed body whose field is truthy never does.
C5_NoDataIffFieldFalsy ==
  Parsed =>
    /\ (assetData.t = "null" \/ ~assetData.has) => NoDataShown
    /\ (assetData.t = "obj" /\ assetData.has /\ assetData.aa.t = "null") => NoDataShown
    /\ (assetData.t = "obj" /\ assetData.has /\ assetData.aa.t = "num"
          /\ assetData.aa.n = 0) => NoDataShown
    /\ (assetData.t = "obj" /\ assetData.has /\ assetData.aa.t = "num"
          /\ assetData.aa.n # 0) => ~NoDataShown
    /\ (assetData.t = "obj" /\ assetData.has /\ assetData.aa.t = "arr") => ~NoDataShown

\* The body {} has been answered with the no-data paragraph.
C5_Witness ==
  /\ Parsed
  /\ assetData = ObjBody(FALSE, JNull)
  /\ NoDataShown

\* C6: decorate's promise never rejects, and a finished decorate in which
\* an exception was raised leaves an error paragraph.
C6_AllExceptionsCaught ==
  /\ promise # "rejected"
  /\ (pc = "done" /\ thrown # "") => innerHTML.kind = "error"

\* C7: the table has one row per entry of asset_allocation, in order, and
\* no row's trend class contains a space.
C7_RowsAndTrendClass ==
  innerHTML.kind = "viz" =>
    /\ Len(innerHTML.rows) = Len(assetData.aa.items)
    /\ \A i \in 1..Len(innerHTML.rows) :
         /\ innerHTML.rows[i].asset_class = assetData.aa.items[i].asset_class
         /\ innerHTML.rows[i].trend = assetData.aa.items[i].trend
         /\ \A k \in 1..Len(innerHTML.rows[i].trendClass) :
              innerHTML.rows[i].trendClass[k] # " "

AnimationStarted == rafPending \/ firstFrame # 0

CapReached == firstFrame # 0 /\ clock - firstFrame >= 3000

\* C8: once drawPieChart has started the animation, a next frame is
\* scheduled exactly while the time since the first frame is below 3000 ms,
\* 'flash-animation' has been added exactly once when that time has reached
\* 3000 ms and never before, and with frames whose timestamps advance the
\* animation eventually completes; for any number of slices.
C8_AnimationCompletes ==
  /\ [](AnimationStarted =>
          /\ rafPending <=> ~CapReached
          /\ flashAdds = (IF CapReached THEN 1 ELSE 0))
  /\ (rafPending ~> (~rafPending /\ flashAdds = 1))

\* The animation of a chart with no slice has completed.
C8_Witness ==
  /\ slices = 0
  /\ innerHTML.kind = "viz"
  /\ ~rafPending
  /\ flashAdds = 1
  /\ clock - firstFrame = 3000

\* C9: on the frame that completes the animation every slice was drawn
\* with opacity 1.
C9_AllSlicesOpaqueAtEnd ==
  flashAdds > 0 => \A i \in 1..slices : alpha[i] = 1200

\* C10: once decorate has begun the block is empty, one of the four error
\* paragraphs alone, or the complete visualization (one legend item and one
\* table row per entry); the configuration row is gone; and an animation
\* has been started only for a block showing the visualization.
C10_BlockContent ==
  pc # "idle" =>
    /\ innerHTML.kind \in {"empty", "error", "viz"}
    /\ innerHTML.row = NoRow
    /\ innerHTML.kind = "empty" =>
         innerHTML.html = "" /\ innerHTML.rows = <<>> /\ innerHTML.legend = <<>>
    /\ innerHTML.kind = "error" =>
         /\ innerHTML.html \in
              {"<p class=\"error\">Unable to load asset allocation data.</p>",
               "<p class=\"error\">Error parsing data.</p>",
               "<p class=\"error\">No data available.</p>",
               "<p class=\"error\">Unable to load asset allocation.</p>"}
         /\ innerHTML.rows = <<>> /\ innerHTML.legend = <<>>
    /\ innerHTML.kind = "viz" =>
         /\ innerHTML.html = ""
         /\ assetData.t = "obj" /\ assetData.has /\ assetData.aa.t = "arr"
         /\ Len(innerHTML.rows) = Len(assetData.aa.items)
         /\ Len(innerHTML.legend) = Len(assetData.aa.items)
    /\ AnimationStarted => innerHTML.kind = "viz"

\* The visualization of a three-entry response is shown and animating.
C10_Witness ==
  /\ pc = "done"
  /\ innerHTML.kind = "viz"
  /\ Len(innerHTML.rows) = 3
  /\ rafPending
  /\ firstFrame # 0

====
